---- MODULE Spec2Model ----
(***************************************************************************)
(* Model of padel_app.py: the cached loader (load_data), the query engine  *)
(* (filter_and_sort_data) and the render cycle of main() that builds the   *)
(* filter dictionary from the widgets and derives the summary metrics.     *)
(*                                                                         *)
(* A DataFrame is a sequence of rows; a derived frame (filtered_df) is the *)
(* sequence of the index labels of df it still holds, in row order, which  *)
(* is what pandas keeps through boolean indexing and sort_values.          *)
(* A missing cell (NaN / None) is the empty tuple, a present cell <<v>>.   *)
(* Prices are counted in units of 1/PriceScale euro, so that prices that   *)
(* are not whole euros exist. Names are tuples of character codes.         *)
(***************************************************************************)
EXTENDS Integers, Sequences, FiniteSets, TLC

\* ------------------------------------------------------------------ bounds
MaxRows == 3
MaxSearchLen == 2
PriceScale == 2

\* ------------------------------------------------------------ cell values
NA == <<>>
Some(v) == <<v>>
IsNA(c) == c = NA
Val(c) == c[1]
Euro(n) == n * PriceScale

RatingAttrs == <<"overall", "power", "control", "rebound", "omgang", "sweetspot">>
LoopAttrs == <<"power", "control", "rebound", "omgang", "sweetspot">>
SortOptions == <<"overall", "price", "power", "control", "rebound", "omgang", "sweetspot", "name">>
SortOrders == <<"desc", "asc">>

Range(s) == {s[i] : i \in 1..Len(s)}

\* ------------------------------------------------------ the data set rows
\* names: "Ab", "B", "C.", and one row without a name
rA == [name |-> Some(<<65, 98>>), overall |-> 8, power |-> 6, control |-> 8,
       rebound |-> 7, omgang |-> 6, sweetspot |-> 8, price |-> Some(Euro(100))]
rB == [name |-> Some(<<66>>), overall |-> 6, power |-> 8, control |-> 6,
       rebound |-> 7, omgang |-> 8, sweetspot |-> 7, price |-> NA]
rC == [name |-> Some(<<67, 46>>), overall |-> 8, power |-> 7, control |-> 7,
       rebound |-> 6, omgang |-> 7, sweetspot |-> 6, price |-> Some(Euro(50))]
rD == [name |-> NA, overall |-> 7, power |-> 6, control |-> 7,
       rebound |-> 8, omgang |-> 6, sweetspot |-> 6, price |-> Some(Euro(100) + 1)]
Rackets == {rA, rB, rC, rD}

Tables == UNION {[1..n -> Rackets] : n \in 1..MaxRows}

\* --------------------------------------------------------------- load_data
\* pd.read_csv on the file, or None (NA) after st.error when it is absent;
\* st.cache_data keeps the first return value and hands back a copy of it.
ReadCsv(exists, content) == IF exists THEN Some(content) ELSE NA
LoadData(cached, exists, content) ==
    IF cached # NA THEN Val(cached) ELSE ReadCsv(exists, content)

\* ------------------------------------------------ filter_and_sort_data
AllRows(df) == [i \in 1..Len(df) |-> i]

\* (col >= range[0]) & (col <= range[1]) on one cell of a rating column
RangeMask_strict(v, r) == v >= r[1] /\ v < r[2]
RangeMask_swapped(v, r) ==
    \/ v >= r[1] /\ v <= r[2]
    \/ v >= r[2] /\ v <= r[1]
RangeMask(v, r) == v >= r[1] /\ v <= r[2]

\* if range[0] != range[1]: filtered_df = filtered_df[mask]
RangeStep(df, idx, attr, r) ==
    IF r[1] # r[2]
    THEN SelectSeq(idx, LAMBDA i : RangeMask(df[i][attr], r))
    ELSE idx

\* ((price >= lo) & (price <= hi)) | (include_no_price & isna(price));
\* a comparison with NaN is False
PriceMask_dropflag(p, r, incl) == ~IsNA(p) /\ Val(p) >= r[1] /\ Val(p) <= r[2]
PriceMask(p, r, incl) ==
    \/ ~IsNA(p) /\ Val(p) >= r[1] /\ Val(p) <= r[2]
    \/ incl /\ IsNA(p)

\* the if / elif on price_range and include_no_price
PriceStep(df, idx, f) ==
    IF f.price_range # NA /\ f.price_range[1] # f.price_range[2]
    THEN SelectSeq(idx, LAMBDA i : PriceMask(df[i].price, f.price_range, f.include_no_price))
    ELSE IF ~f.include_no_price
         THEN SelectSeq(idx, LAMBDA i : ~IsNA(df[i].price))
         ELSE idx

\* for attr in ['power', 'control', 'rebound', 'omgang', 'sweetspot']
RECURSIVE AttrLoop(_, _, _, _)
AttrLoop(df, idx, f, k) ==
    IF k > Len(LoopAttrs) THEN idx
    ELSE AttrLoop(df, RangeStep(df, idx, LoopAttrs[k], f[LoopAttrs[k] \o "_range"]), f, k + 1)

\* str.lower on one character code
Lower(c) == IF c \in 65..90 THEN c + 32 ELSE c

\* one pattern character against one subject character under re.IGNORECASE:
\* '.' (46) is the regex wildcard, every other modelled character is literal
CharMatch(pc, c) == pc = 46 \/ Lower(pc) = Lower(c)

\* re.search(pat, s, re.IGNORECASE) is not None
RegexSearch(pat, s) ==
    \E p \in 1..(Len(s) - Len(pat) + 1) :
        \A j \in 1..Len(pat) : CharMatch(pat[j], s[p + j - 1])

\* Series.str.contains(pat, case=False, na=False) on one cell (regex=True)
StrContains(name, pat) == IF IsNA(name) THEN FALSE ELSE RegexSearch(pat, Val(name))

\* if filters['name_search']: filtered_df = filtered_df[contains]
NameStep(df, idx, f) ==
    IF f.name_search # <<>>
    THEN SelectSeq(idx, LAMBDA i : StrContains(df[i].name, f.name_search))
    ELSE idx

\* the filter part of filter_and_sort_data, in the code's order
ApplyFilters(df, f) ==
    NameStep(df,
        AttrLoop(df,
            PriceStep(df,
                RangeStep(df, AllRows(df), "overall", f.overall_range),
                f),
            f, 1),
        f)

\* ------------------------------------------------------------- sort_values
\* the sort key of one row; rating columns never hold a missing cell
KeyOf(row, by) == IF by \in {"name", "price"} THEN row[by] ELSE Some(row[by])

\* Python's < on two str values: lexicographic on the code points
RECURSIVE LexLess(_, _)
LexLess(a, b) ==
    IF b = <<>> THEN FALSE
    ELSE IF a = <<>> THEN TRUE
    ELSE IF Head(a) # Head(b) THEN Head(a) < Head(b)
    ELSE LexLess(Tail(a), Tail(b))

KeyLess(by, x, y) == IF by = "name" THEN LexLess(Val(x), Val(y)) ELSE Val(x) < Val(y)

\* na_position handed to sort_values: 'last' on both price branches, and the
\* pandas default 'last' on the branch for every other column
NaPosition_byorder(sort_by, sort_order) == IF sort_order = "asc" THEN "last" ELSE "first"
NaPosition(sort_by, sort_order) == "last"

\* the orders of the rows with a present key that sort_values may return:
\* kind is left at its default 'quicksort', which orders by key and gives no
\* guarantee on the relative order of rows with equal keys
PresentOrders(df, present, by, ascending) ==
    {p \in [1..Len(present) -> Range(present)] :
        /\ \A i, j \in 1..Len(present) : i # j => p[i] # p[j]
        /\ \A i, j \in 1..Len(present) : i < j =>
              IF ascending
              THEN ~KeyLess(by, KeyOf(df[p[j]], by), KeyOf(df[p[i]], by))
              ELSE ~KeyLess(by, KeyOf(df[p[i]], by), KeyOf(df[p[j]], by))}

\* DataFrame.sort_values(by, ascending, na_position): the rows with a
\* missing key are set apart in their row order and put at the given end
SortValues(df, idx, by, ascending, na_position) ==
    LET present == SelectSeq(idx, LAMBDA i : ~IsNA(KeyOf(df[i], by)))
        nans    == SelectSeq(idx, LAMBDA i : IsNA(KeyOf(df[i], by)))
    IN  {IF na_position = "last" THEN p \o nans ELSE nans \o p :
            p \in PresentOrders(df, present, by, ascending)}

\* the frames filter_and_sort_data may return after the filters
SortStep(df, idx, sort_by, sort_order) ==
    SortValues(df, idx, sort_by, sort_order = "asc", NaPosition(sort_by, sort_order))

\* df as the caller sees it after the call: the function works on df.copy(),
\* boolean indexing and sort_values (inplace=False) return new frames
DfAfterQuery_inplace(df, view) == [i \in 1..Len(view) |-> df[view[i]]]
DfAfterQuery(df, view) == df

\* ------------------------------------------------------- main: the widgets
RECURSIVE SeqMin(_)
SeqMin(s) == IF Len(s) = 1 THEN s[1]
             ELSE LET m == SeqMin(Tail(s)) IN IF s[1] < m THEN s[1] ELSE m
RECURSIVE SeqMax(_)
SeqMax(s) == IF Len(s) = 1 THEN s[1]
             ELSE LET m == SeqMax(Tail(s)) IN IF s[1] > m THEN s[1] ELSE m

Column(df, attr) == [i \in 1..Len(df) |-> df[i][attr]]

\* df['price'].dropna()
PriceData(df) ==
    LET kept == SelectSeq(AllRows(df), LAMBDA i : ~IsNA(df[i].price))
    IN  [k \in 1..Len(kept) |-> Val(df[kept[k]].price)]

\* int(x) on a non-negative number held in 1/scale units: truncation
PyInt(units, scale) == units \div scale

\* value=(int(col.min()), int(col.max())) of a rating slider
RatingSliderDefault(df, attr) ==
    <<PyInt(SeqMin(Column(df, attr)), 1), PyInt(SeqMax(Column(df, attr)), 1)>>

\* the price slider's default in whole euros, held in price units; None when
\* price_data is empty
PriceSliderDefault(df) ==
    LET price_data == PriceData(df)
    IN  IF price_data # <<>>
        THEN <<Euro(PyInt(SeqMin(price_data), PriceScale)),
               Euro(PyInt(SeqMax(price_data), PriceScale))>>
        ELSE NA

\* the filters dictionary main builds when no widget has been touched
WidgetDefaults(df) ==
    [name_search      |-> <<>>,
     overall_range    |-> RatingSliderDefault(df, "overall"),
     price_range      |-> PriceSliderDefault(df),
     include_no_price |-> TRUE,
     power_range      |-> RatingSliderDefault(df, "power"),
     control_range    |-> RatingSliderDefault(df, "control"),
     rebound_range    |-> RatingSliderDefault(df, "rebound"),
     omgang_range     |-> RatingSliderDefault(df, "omgang"),
     sweetspot_range  |-> RatingSliderDefault(df, "sweetspot")]

\* ------------------------------------------------------- main: the metrics
RECURSIVE SeqSum(_)
SeqSum(s) == IF s = <<>> THEN 0 ELSE Head(s) + SeqSum(Tail(s))

\* f"{x:.0f}" of num/den (den > 0, num >= 0): round half to even
RoundHalfEven(num, den) ==
    LET q == num \div den
        r == num % den
    IN  IF 2 * r < den THEN q
        ELSE IF 2 * r > den THEN q + 1
        ELSE IF q % 2 = 0 THEN q ELSE q + 1

\* the "Avg Price" metric: none when nothing is shown, "N/A" when mean() of
\* the price column (skipna) is NaN, the rounded mean in euros otherwise
NoMetric == [kind |-> "none", val |-> 0]
AvgPriceMetric_fillzero(df, view) ==
    LET prices == PriceData([k \in 1..Len(view) |-> df[view[k]]])
    IN  IF Len(view) > 0
        THEN [kind |-> "num",
              val |-> RoundHalfEven(SeqSum(prices), Len(view) * PriceScale)]
        ELSE NoMetric
AvgPriceMetric(df, view) ==
    LET prices == PriceData([k \in 1..Len(view) |-> df[view[k]]])
    IN  IF Len(view) > 0
        THEN IF prices # <<>>
             THEN [kind |-> "num",
                   val |-> RoundHalfEven(SeqSum(prices), Len(prices) * PriceScale)]
             ELSE [kind |-> "N/A", val |-> 0]
        ELSE NoMetric

Metrics(total, df, view) ==
    [total_rackets         |-> total,
     shown_rackets         |-> Len(view),
     rackets_with_price    |-> Len(SelectSeq(view, LAMBDA i : ~IsNA(df[i].price))),
     rackets_without_price |-> Len(SelectSeq(view, LAMBDA i : IsNA(df[i].price))),
     avg_price             |-> AvgPriceMetric(df, view)]

\* ------------------------------------------------- inputs of a render cycle
\* the filter specification whose every range is the column's exact bounds
ExactBounds(df) ==
    [name_search      |-> <<>>,
     overall_range    |-> <<SeqMin(Column(df, "overall")), SeqMax(Column(df, "overall"))>>,
     price_range      |-> IF PriceData(df) # <<>>
                          THEN <<SeqMin(PriceData(df)), SeqMax(PriceData(df))>>
                          ELSE NA,
     include_no_price |-> TRUE,
     power_range      |-> <<SeqMin(Column(df, "power")), SeqMax(Column(df, "power"))>>,
     control_range    |-> <<SeqMin(Column(df, "control")), SeqMax(Column(df, "control"))>>,
     rebound_range    |-> <<SeqMin(Column(df, "rebound")), SeqMax(Column(df, "rebound"))>>,
     omgang_range     |-> <<SeqMin(Column(df, "omgang")), SeqMax(Column(df, "omgang"))>>,
     sweetspot_range  |-> <<SeqMin(Column(df, "sweetspot")), SeqMax(Column(df, "sweetspot"))>>]

Ratings == 6..8
RatingRanges == Ratings \X Ratings
PricePoints == {Euro(0), Euro(20), Euro(100)}
PriceRanges == (PricePoints \X PricePoints) \cup {NA}
\* search strings over 'a', 'b' and '.'
SearchChars == {97, 98, 46}
Searches == UNION {[1..n -> SearchChars] : n \in 0..MaxSearchLen}
SortDirectives == Range(SortOptions) \X Range(SortOrders)

WithRange(f, attr, r) == [f EXCEPT ![attr \o "_range"] = r]

\* the (filters, sort_by, sort_order) a render cycle is run with: the widget
\* defaults and the exact bounds under every sort directive, and one rating
\* range, the price predicate or the name search varied off the exact bounds
Inputs(df) ==
    LET e == ExactBounds(df) IN
    ({WidgetDefaults(df), e} \X SortDirectives)
    \cup
    ({[WithRange(e, a, r) EXCEPT !.include_no_price = b, !.price_range = pr] :
         a \in Range(RatingAttrs), r \in RatingRanges, b \in BOOLEAN,
         pr \in {NA, e.price_range}}
      \X {<<"price", "desc">>})
    \cup
    ({[e EXCEPT !.price_range = pr, !.include_no_price = b, !.overall_range = r] :
         pr \in PriceRanges, b \in BOOLEAN,
         r \in {e.overall_range, <<8, 8>>, <<8, 6>>}}
      \X {<<"price", "desc">>, <<"price", "asc">>, <<"name", "asc">>})
    \cup
    ({[e EXCEPT !.name_search = s, !.include_no_price = b] :
         s \in Searches, b \in BOOLEAN}
      \X {<<"name", "asc">>})

\* ------------------------------------------------------------------- state
VARIABLES
    pc,            \* "idle": no script run in progress; "loaded": main has
                   \* called load_data; "shown": main ran to its end;
                   \* "no_data": main returned after load_data gave None
    file_exists,   \* whether padel_data.csv is there
    csv,           \* the rows of padel_data.csv
    cache,         \* st.cache_data's entry for load_data: NA or Some(return value)
    df,            \* main's df
    filters,       \* main's filters dictionary
    sort_by,
    sort_order,
    pre_sort,      \* filtered_df when the filters are done, before the sort
    filtered_df,   \* what filter_and_sort_data returned
    metrics        \* the st.metric values of the summary row

vars == <<pc, file_exists, csv, cache, df, filters, sort_by, sort_order,
          pre_sort, filtered_df, metrics>>

NoFilters == [name_search |-> <<>>, overall_range |-> NA, price_range |-> NA,
              include_no_price |-> TRUE, power_range |-> NA, control_range |-> NA,
              rebound_range |-> NA, omgang_range |-> NA, sweetspot_range |-> NA]
NoMetrics == [total_rackets |-> 0, shown_rackets |-> 0, rackets_with_price |-> 0,
              rackets_without_price |-> 0, avg_price |-> NoMetric]

Locals(d, f, by, order, pre, view, m) ==
    /\ df' = d
    /\ filters' = f
    /\ sort_by' = by
    /\ sort_order' = order
    /\ pre_sort' = pre
    /\ filtered_df' = view
    /\ metrics' = m

NoLocals == Locals(NA, NoFilters, "", "", <<>>, <<>>, NoMetrics)

Init ==
    /\ pc = "idle"
    /\ file_exists \in BOOLEAN
    /\ csv \in Tables
    /\ cache = NA
    /\ df = NA
    /\ filters = NoFilters
    /\ sort_by = ""
    /\ sort_order = ""
    /\ pre_sort = <<>>
    /\ filtered_df = <<>>
    /\ metrics = NoMetrics

\* df = load_data(): the cached return value, or the file read and cached
CallLoadData ==
    /\ pc = "idle"
    /\ LET ret == LoadData(cache, file_exists, csv) IN
        /\ cache' = Some(ret)
        /\ df' = IF ret = NA THEN NA ELSE Val(ret)
    /\ pc' = "loaded"
    /\ UNCHANGED <<file_exists, csv, filters, sort_by, sort_order, pre_sort,
                   filtered_df, metrics>>

\* if df is None: return (st.error was shown by load_data)
MainNoData ==
    /\ pc = "loaded"
    /\ df = NA
    /\ pc' = "no_data"
    /\ UNCHANGED <<file_exists, csv, cache, df, filters, sort_by, sort_order,
                   pre_sort, filtered_df, metrics>>

\* the rest of the script run on a loaded table: widgets, filters
\* dictionary, filter_and_sort_data, summary metrics
MainRender ==
    /\ pc = "loaded"
    /\ df # NA
    /\ \E inp \in Inputs(df) :
         LET f     == inp[1]
             by    == inp[2][1]
             order == inp[2][2]
             pre   == ApplyFilters(df, f)
         IN  \E view \in SortStep(df, pre, by, order) :
                Locals(DfAfterQuery(df, view), f, by, order, pre, view,
                       Metrics(Len(DfAfterQuery(df, view)), df, view))
    /\ pc' = "shown"
    /\ UNCHANGED <<file_exists, csv, cache>>

\* the script run is over; its local variables are gone until the next run
EndRun ==
    /\ pc \in {"shown", "no_data"}
    /\ pc' = "idle"
    /\ NoLocals
    /\ UNCHANGED <<file_exists, csv, cache>>

Next == CallLoadData \/ MainNoData \/ MainRender \/ EndRun

Spec == Init /\ [][Next]_vars

TypeOK ==
    /\ pc \in {"idle", "loaded", "shown", "no_data"}
    /\ pc = "shown" => /\ df # NA
                       /\ Range(filtered_df) \subseteq 1..Len(csv)

\* ------------------------------------------------------------- properties
Shown == pc = "shown"
Kept == Range(filtered_df)
RangeOf(a) == filters[a \o "_range"]
InRange(v, r) == r[1] <= v /\ v <= r[2]
ScenarioTable == <<rA, rB, rC>>

\* the rows that pass every predicate of the call but the one on attribute a
PassOthers(a) == Range(ApplyFilters(df, WithRange(filters, a, ExactBounds(df)[a \o "_range"])))

\* the rows that pass the rating and name predicates of the call
PassNonPrice ==
    Range(ApplyFilters(df, [filters EXCEPT !.price_range = NA, !.include_no_price = TRUE]))

\* the rows that pass the rating and price predicates of the call
PassNonName == Range(ApplyFilters(df, [filters EXCEPT !.name_search = <<>>]))

\* C1: for each rating attribute whose supplied range is not the column's
\* full bounds, a row that passes the other predicates is kept iff
\* min <= value <= max, also when min = max; on [A, B, C] with overall
\* range [8,8], missing prices included, no price range, price descending,
\* the result is exactly [A, C].
C1_RangeKeepsIffWithin ==
    Shown =>
      /\ \A k \in 1..Len(RatingAttrs) :
            LET a == RatingAttrs[k] IN
            RangeOf(a) # ExactBounds(df)[a \o "_range"] =>
               \A i \in PassOthers(a) : i \in Kept <=> InRange(df[i][a], RangeOf(a))
      /\ ( /\ df = ScenarioTable
           /\ filters = [WithRange(ExactBounds(df), "overall", <<8, 8>>)
                            EXCEPT !.price_range = NA]
           /\ sort_by = "price" /\ sort_order = "desc" )
         => filtered_df = <<1, 3>>

\* C2: when every range is its column's exact bounds, rows without price are
\* included and the name search is empty, no row is excluded: before the
\* sort the rows are all there in their original order, and the result holds
\* every row exactly once.
C2_FullBoundsKeepAll ==
    (Shown /\ filters = ExactBounds(df)) =>
       /\ pre_sort = AllRows(df)
       /\ Len(filtered_df) = Len(df)
       /\ Kept = 1..Len(df)

C2_Witness ==
    /\ Shown /\ filters = ExactBounds(df)
    /\ filters.overall_range[1] < filters.overall_range[2]
    /\ filters.price_range # NA /\ filters.price_range[1] < filters.price_range[2]
    /\ \E i \in 1..Len(df) : IsNA(df[i].price)
    /\ Len(filtered_df) = Len(df)

\* C3: with the filters main builds from untouched widgets, the shown count
\* equals the total number of rows, for integer ratings and non-negative
\* prices that need not be whole.
C3_DefaultsShowAll ==
    (Shown /\ filters = WidgetDefaults(df)) =>
       metrics.shown_rackets = metrics.total_rackets

\* C4: a row without price that passes the rating and name predicates is in
\* the result iff include_no_price is set, under every non-degenerate price
\* range (also one holding no present price, also an inverted one) and when
\* no price range is supplied.
C4_MissingPriceIffFlag ==
    ( /\ Shown
      /\ \/ filters.price_range = NA
         \/ filters.price_range[1] # filters.price_range[2] )
    => \A i \in PassNonPrice :
          IsNA(df[i].price) => (i \in Kept <=> filters.include_no_price)

C4_Witness ==
    /\ Shown
    /\ filters.price_range # NA
    /\ filters.price_range[1] > filters.price_range[2]
    /\ filters.include_no_price
    /\ \E i \in Kept : IsNA(df[i].price)
    /\ \E i \in 1..Len(df) : ~IsNA(df[i].price)

\* C5: under every sort attribute and both directions, every row whose sort
\* key is missing comes after every row whose sort key is present; [A(100),
\* B(missing), C(50)] by price is [C, A, B] ascending and [A, C, B] descending.
C5_MissingKeysLast ==
    Shown =>
      /\ \A p, q \in 1..Len(filtered_df) :
            ( /\ IsNA(KeyOf(df[filtered_df[p]], sort_by))
              /\ ~IsNA(KeyOf(df[filtered_df[q]], sort_by)) ) => q < p
      /\ (df = ScenarioTable /\ pre_sort = AllRows(df) /\ sort_by = "price") =>
            filtered_df = IF sort_order = "asc" THEN <<3, 1, 2>> ELSE <<1, 3, 2>>

C5_Witness ==
    /\ Shown
    /\ df = ScenarioTable
    /\ sort_by = "price" /\ sort_order = "desc"
    /\ filtered_df = <<1, 3, 2>>

\* C6: the sort is stable in both directions: of two rows of the result with
\* equal sort keys (or both without one), the one that is first in the table
\* is first in the result.
C6_SortStable ==
    Shown =>
      \A p, q \in 1..Len(filtered_df) :
         ( /\ p < q
           /\ KeyOf(df[filtered_df[p]], sort_by) = KeyOf(df[filtered_df[q]], sort_by) )
         => filtered_df[p] < filtered_df[q]

\* name contains pat as a literal substring, letter case ignored
LiteralContains(name, pat) ==
    \E p \in 1..(Len(name) - Len(pat) + 1) :
        \A j \in 1..Len(pat) : Lower(pat[j]) = Lower(name[p + j - 1])

\* C7: a row passes the name predicate iff the search string is empty or its
\* name contains the search string as a literal case-insensitive substring,
\* whatever characters the search string is made of; a row without a name
\* never passes a non-empty search.
C7_NameLiteralSubstring ==
    Shown =>
      \A i \in PassNonName :
         i \in Kept <=>
            \/ filters.name_search = <<>>
            \/ /\ ~IsNA(df[i].name)
               /\ LiteralContains(Val(df[i].name), filters.name_search)

\* C8: the average-price metric is taken over the filtered result only; it
\* is a number iff the result holds a row with a price, "N/A" when the
\* result is non-empty and holds none, and absent when the result is empty.
C8_AvgPriceMetric ==
    Shown =>
      LET priced == {i \in Kept : ~IsNA(df[i].price)}
          avg    == metrics.avg_price
      IN  /\ avg.kind = "num" <=> priced # {}
          /\ (filtered_df # <<>> /\ priced = {}) => avg.kind = "N/A"
          /\ filtered_df = <<>> => avg.kind = "none"
          /\ avg.kind = "num" =>
                /\ \E i \in priced : 2 * Euro(avg.val) + PriceScale >= 2 * Val(df[i].price)
                /\ \E i \in priced : 2 * Euro(avg.val) - PriceScale <= 2 * Val(df[i].price)

C8_Witness ==
    /\ Shown
    /\ filtered_df # <<>>
    /\ \A i \in Kept : IsNA(df[i].price)
    /\ \E i \in 1..Len(df) : ~IsNA(df[i].price)
    /\ metrics.avg_price.kind = "N/A"

\* C9: a range with min > max does not make the call fail: the call returns
\* a result in which no row has a present value on that attribute, so the
\* result is empty for a rating attribute and for price holds only rows
\* without price, and those only when include_no_price is set.
C9_InvertedRange ==
    Shown =>
      /\ \A k \in 1..Len(RatingAttrs) :
            RangeOf(RatingAttrs[k])[1] > RangeOf(RatingAttrs[k])[2] => filtered_df = <<>>
      /\ (filters.price_range # NA /\ filters.price_range[1] > filters.price_range[2]) =>
            \A i \in Kept : IsNA(df[i].price) /\ filters.include_no_price

C9_Witness ==
    /\ Shown
    /\ \E k \in 1..Len(RatingAttrs) : RangeOf(RatingAttrs[k])[1] > RangeOf(RatingAttrs[k])[2]
    /\ filtered_df = <<>>
    /\ metrics.shown_rackets = 0
    /\ Len(df) > 1

\* C10: whatever filters and sort a render cycle is run with, the loaded
\* table is unchanged: main's df and the cached table hold the rows of the
\* file in their order, on the first run and on every later one.
C10_TableUnchanged ==
    /\ (pc \in {"loaded", "shown"} /\ file_exists) => df = csv
    /\ (cache # NA /\ file_exists) => cache = Some(Some(csv))

C10_Witness ==
    /\ Shown
    /\ cache = Some(Some(csv))
    /\ df = csv
    /\ \E p, q \in 1..Len(filtered_df) : p < q /\ filtered_df[p] > filtered_df[q]
    /\ Len(filtered_df) < Len(df)

====
